---- MODULE Spec2Model ----
(***************************************************************************)
(* Calendar store and availability engine.                                 *)
(*                                                                         *)
(* Two code paths work on the same SQLite file "calendar_database.db":     *)
(*   - CalendarDatabaseModel (calendar_database_model.py), which keeps ONE *)
(*     connection open for the life of the process, and                    *)
(*   - the HTTP handlers of app.py, each of which opens its own connection *)
(*     and closes it before returning.                                     *)
(*                                                                         *)
(* Timestamps are ISO strings of one fixed format; SQLite compares them as *)
(* text, which for one format is chronological order.  They are modelled   *)
(* as whole hours counted from midnight of day 0.                          *)
(***************************************************************************)
EXTENDS Integers, Sequences, FiniteSets, TLC

VARIABLES
    users,          \* table users: rows [id, name, email]
    meeting_rooms,  \* table meeting_rooms: rows [id, name, capacity, is_virtual]
    events,         \* table events: rows [id, start_time, end_time, meeting_room_id]
    user_events,    \* table user_events: rows [user_id, event_id, is_organizer]
    event_seq,      \* sqlite_sequence entry of events (AUTOINCREMENT)
    txn,            \* rows written on CalendarDatabaseModel.conn, not yet committed
    ret,            \* what the last operation returned to its caller
    call            \* log of one call: its arguments, the database before it, its outcome

vars == <<users, meeting_rooms, events, user_events, event_seq, txn, ret, call>>

(***************************************************************************)
(* Bounds of the model.                                                    *)
(***************************************************************************)
MaxUsers == 2          \* user ids that requests name
MaxRegistered == 1     \* users registered while events are worked on
MaxEmails == 3         \* e-mail addresses
MaxNames == 2          \* user names
MaxEventSeq == 1       \* events ever created
MaxAttendees == 2      \* length of an attendee list
MaxTime == 1           \* event timestamps range over FirstTime..FirstTime+MaxTime
MaxRooms == 2          \* rows of meeting_rooms
MaxSpan == 3           \* hours spanned by the events the read operations see

(***************************************************************************)
(* Program constants.                                                      *)
(***************************************************************************)
HoursPerDay == 24
FirstTime == 9
OnlineRoomId == 1
OnlineRoomCapacity == 999

NULL == 0              \* SQL NULL / Python None for ids (real ids start at 1)
Absent == -1           \* a key that is not in the request body

\* An id outside the 64-bit range of an SQLite INTEGER (2**63, say): binding
\* it to a statement raises OverflowError, which is not an sqlite3.Error.
\* The number stands for every such value.
TooLarge == 2147483647

UserIds == 1..MaxUsers
Emails == 1..MaxEmails       \* address k stands for "k@example.com"
Names == 1..MaxNames
Times == FirstTime..(FirstTime + MaxTime)
EventIds == 1..MaxEventSeq

Max(a, b) == IF a >= b THEN a ELSE b

SetMax(S) == IF S = {} THEN 0 ELSE CHOOSE m \in S : \A x \in S : x <= m

RECURSIVE SeqsUpTo(_, _)
SeqsUpTo(S, n) ==
    IF n = 0 THEN {<<>>}
    ELSE LET shorter == SeqsUpTo(S, n - 1)
         IN  shorter \cup {Append(q, x) : q \in {p \in shorter : Len(p) = n - 1}, x \in S}

\* The id lists of requests: every list of at most MaxAttendees ids in
\* non-decreasing order, so with every pattern of repeated ids.
ListsOf(S) ==
    {q \in SeqsUpTo(S, MaxAttendees) : \A i \in 1..(Len(q) - 1) : q[i] <= q[i + 1]}

\* Lists of user ids, and lists that may hold the unbindable id as well.
UserLists == ListsOf(UserIds)
AttendeeLists == ListsOf(UserIds \cup {TooLarge})

Range(q) == {q[i] : i \in 1..Len(q)}

(***************************************************************************)
(* The database as one value.  `events`/`user_events` are the committed    *)
(* tables; `txn` is the transaction of the long-lived connection of        *)
(* CalendarDatabaseModel: whether one is open, and the rows inserted in it *)
(* that no commit or rollback has settled yet.                             *)
(***************************************************************************)
EmptyTxn == [events |-> {}, user_events |-> {}, open |-> FALSE]

Db == [users |-> users, meeting_rooms |-> meeting_rooms, events |-> events,
       user_events |-> user_events, event_seq |-> event_seq, txn |-> txn]

\* What a statement on CalendarDatabaseModel.conn sees: committed rows plus its own.
ViewEvents(db) == db.events \cup db.txn.events
ViewUserEvents(db) == db.user_events \cup db.txn.user_events

\* sqlite3 opens a transaction before an INSERT or DELETE on a connection
\* that has none; the statement takes the write lock of the file, and keeps
\* it when it fails, until the connection commits or rolls back.
Begin(db) == [db EXCEPT !.txn.open = TRUE]

\* conn.commit(): the pending rows become part of the file.
Commit(db) ==
    [db EXCEPT !.events = ViewEvents(db),
               !.user_events = ViewUserEvents(db),
               !.event_seq = Max(db.event_seq, SetMax({e.id : e \in ViewEvents(db)})),
               !.txn = EmptyTxn]

\* conn.rollback(): the pending rows are dropped.
Rollback(db) == [db EXCEPT !.txn = EmptyTxn]

\* Python's sqlite3 leaves PRAGMA foreign_keys at its default, OFF: the
\* REFERENCES and ON DELETE CASCADE clauses of the schema are not enforced.
ForeignKeysEnabled == FALSE

UserRow(id, name, email) == [id |-> id, name |-> name, email |-> email]

\* users.email is UNIQUE.
EmailTaken(db, email) == \E u \in db.users : u.email = email

\* user_events has PRIMARY KEY (user_id, event_id).
PkViolation(rows, user_id, event_id) ==
    \E r \in rows : r.user_id = user_id /\ r.event_id = event_id

UserEventRow(user_id, event_id, is_organizer) ==
    [user_id |-> user_id, event_id |-> event_id, is_organizer |-> is_organizer]

EventRow(id, start_time, end_time, meeting_room_id) ==
    [id |-> id, start_time |-> start_time, end_time |-> end_time,
     meeting_room_id |-> meeting_room_id]

\* INTEGER PRIMARY KEY without AUTOINCREMENT: one more than the largest id
\* in the table.
NextEventId_largest_stored(db) == SetMax({e.id : e \in ViewEvents(db)}) + 1

\* AUTOINCREMENT: one more than the largest id ever used.
NextEventId(db) == Max(db.event_seq, SetMax({e.id : e \in ViewEvents(db)})) + 1
NextUserId(db) == SetMax({u.id : u \in db.users}) + 1
NextRoomId(db) == SetMax({m.id : m \in db.meeting_rooms}) + 1

Ret(op, status, val) == [op |-> op, status |-> status, val |-> val]

\* A write from another connection while CalendarDatabaseModel.conn holds an
\* open write transaction fails with "database is locked".
Locked(db) == db.txn.open

(***************************************************************************)
(* CalendarDatabaseModel: every method runs on the one shared connection.  *)
(* Each operator maps the database to the database after the call and the *)
(* value handed back to the caller.                                        *)
(***************************************************************************)

\* add_user: INSERT, commit, lastrowid; on IntegrityError the id of the row
\* that holds the e-mail, with neither commit nor rollback.
add_user(db, name, email) ==
    IF EmailTaken(db, email)
    THEN [db |-> Begin(db),
          ret |-> Ret("add_user", "ok",
                      (CHOOSE u \in db.users : u.email = email).id)]
    ELSE LET id == NextUserId(db)
         IN  [db |-> Commit([db EXCEPT !.users = @ \cup {UserRow(id, name, email)}]),
              ret |-> Ret("add_user", "ok", id)]

\* add_meeting_room: INSERT, commit, lastrowid.
add_meeting_room(db, capacity, is_virtual) ==
    LET id == NextRoomId(db)
    IN  [db |-> Commit([db EXCEPT !.meeting_rooms = @ \cup
                          {[id |-> id, name |-> "room", capacity |-> capacity,
                            is_virtual |-> is_virtual]}]),
         ret |-> Ret("add_meeting_room", "ok", id)]

\* The attendee loop leaving after its first INSERT: only the first attendee
\* other than the organizer gets a row.
RECURSIVE InsertAttendees_stops_early(_, _, _, _)
InsertAttendees_stops_early(rows, event_id, organizer_id, attendee_ids) ==
    IF attendee_ids = <<>> THEN [error |-> "none", rows |-> rows]
    ELSE LET user_id == Head(attendee_ids)
         IN  IF user_id = organizer_id
             THEN InsertAttendees_stops_early(rows, event_id, organizer_id,
                                              Tail(attendee_ids))
             ELSE IF user_id = TooLarge
             THEN [error |-> "OverflowError", rows |-> rows]
             ELSE [error |-> "none",
                   rows |-> rows \cup {UserEventRow(user_id, event_id, FALSE)}]

\* The attendee loop of create_event: plain INSERTs, the organizer skipped.
\* The first INSERT whose id cannot be bound raises OverflowError, the first
\* that hits the primary key raises IntegrityError; the rows inserted before
\* it are still in the transaction.
RECURSIVE InsertAttendees(_, _, _, _)
InsertAttendees(rows, event_id, organizer_id, attendee_ids) ==
    IF attendee_ids = <<>> THEN [error |-> "none", rows |-> rows]
    ELSE LET user_id == Head(attendee_ids)
         IN  IF user_id = organizer_id
             THEN InsertAttendees(rows, event_id, organizer_id, Tail(attendee_ids))
             ELSE IF user_id = TooLarge
             THEN [error |-> "OverflowError", rows |-> rows]
             ELSE IF PkViolation(rows, user_id, event_id)
             THEN [error |-> "IntegrityError", rows |-> rows]
             ELSE InsertAttendees(rows \cup {UserEventRow(user_id, event_id, FALSE)},
                                  event_id, organizer_id, Tail(attendee_ids))

\* create_event: INSERT the event, INSERT the organizer row (user_id is NOT
\* NULL, so an organizer of None raises IntegrityError), INSERT one row per
\* attendee other than the organizer, commit; on sqlite3.Error rollback and
\* re-raise, any other exception leaves the function with the transaction
\* as it is.  No check of start_time against end_time, and (foreign keys
\* being off) none of the ids.
create_event(db, start_time, end_time, organizer_id, attendee_ids, meeting_room_id) ==
    LET event_id == NextEventId(db)
        withEvent == [Begin(db) EXCEPT !.txn.events = @ \cup
                        {EventRow(event_id, start_time, end_time, meeting_room_id)}]
        withOrganizer == ViewUserEvents(db) \cup {UserEventRow(organizer_id, event_id, TRUE)}
        att == InsertAttendees(withOrganizer, event_id, organizer_id, attendee_ids)
        written == [withEvent EXCEPT !.txn.user_events = att.rows \ db.user_events]
    IN  IF organizer_id = NULL
        THEN [db |-> Rollback(withEvent), ret |-> Ret("create_event", "error", 0)]
        ELSE IF att.error = "none"
        THEN [db |-> Commit(written), ret |-> Ret("create_event", "ok", event_id)]
        ELSE IF att.error = "IntegrityError"
        THEN [db |-> Rollback(written), ret |-> Ret("create_event", "error", 0)]
        ELSE [db |-> written, ret |-> Ret("create_event", "error", 0)]

\* cancel_event: DELETE the event row, commit, rowcount > 0.  The cascade to
\* user_events happens only when foreign keys are enforced.  The commit
\* keeps the AUTOINCREMENT sequence of an event that was still pending.
cancel_event(db, event_id) ==
    LET existed == \E e \in ViewEvents(db) : e.id = event_id
        deleted == [Begin(db) EXCEPT
                      !.event_seq = Max(@, SetMax({e.id : e \in ViewEvents(db)})),
                      !.events = {e \in @ : e.id # event_id},
                      !.txn.events = {e \in @ : e.id # event_id},
                      !.user_events = IF ForeignKeysEnabled
                                      THEN {r \in @ : r.event_id # event_id} ELSE @,
                      !.txn.user_events = IF ForeignKeysEnabled
                                          THEN {r \in @ : r.event_id # event_id} ELSE @]
    IN  [db |-> Commit(deleted), ret |-> Ret("cancel_event", "ok", IF existed THEN 1 ELSE 0)]

(***************************************************************************)
(* app.py: every handler opens a fresh connection, so it sees the          *)
(* committed tables only, and its writes fail while the file is locked.    *)
(* The value of an error return is the HTTP status.                        *)
(***************************************************************************)

\* The address create_user uses when the body has no "email" key.
DefaultEmail(username) == username

\* POST /api/users: INSERT with the address of the body or the default one,
\* commit, 201; IntegrityError -> 400, any other exception (the file
\* locked) -> 500.
app_create_user(db, username, email) ==
    LET address == IF email = Absent THEN DefaultEmail(username) ELSE email
    IN  IF Locked(db)
        THEN [db |-> db, ret |-> Ret("app_create_user", "error", 500)]
        ELSE IF EmailTaken(db, address)
        THEN [db |-> db, ret |-> Ret("app_create_user", "error", 400)]
        ELSE LET id == NextUserId(db)
             IN  [db |-> [db EXCEPT !.users = @ \cup {UserRow(id, username, address)}],
                  ret |-> Ret("app_create_user", "ok", id)]

\* POST /api/events: INSERT the event; INSERT the organizer row only when the
\* body carries a user_id; INSERT the invited users other than user_id;
\* commit.  Any exception: rollback, 500.
app_create_event(db, start_time, end_time, user_id, invited_users, meeting_room_id) ==
    LET event_id == Max(db.event_seq, SetMax({e.id : e \in db.events})) + 1
        withOrganizer == IF user_id # NULL
                         THEN db.user_events \cup {UserEventRow(user_id, event_id, TRUE)}
                         ELSE db.user_events
        att == InsertAttendees(withOrganizer, event_id, user_id, invited_users)
    IN  IF Locked(db) \/ att.error # "none"
        THEN [db |-> db, ret |-> Ret("app_create_event", "error", 500)]
        ELSE [db |-> [db EXCEPT
                        !.events = @ \cup {EventRow(event_id, start_time, end_time,
                                                    meeting_room_id)},
                        !.user_events = att.rows,
                        !.event_seq = event_id],
              ret |-> Ret("app_create_event", "ok", event_id)]

\* POST /api/events/<id>/users: 404 for an unknown event or user, nothing to
\* do for a user already on the event, else INSERT with is_organizer = 0.
add_user_to_event(db, event_id, user_id) ==
    IF ~\E e \in db.events : e.id = event_id
    THEN [db |-> db, ret |-> Ret("add_user_to_event", "error", 404)]
    ELSE IF ~\E u \in db.users : u.id = user_id
    THEN [db |-> db, ret |-> Ret("add_user_to_event", "error", 404)]
    ELSE IF PkViolation(db.user_events, user_id, event_id)
    THEN [db |-> db, ret |-> Ret("add_user_to_event", "ok", 200)]
    ELSE IF Locked(db)
    THEN [db |-> db, ret |-> Ret("add_user_to_event", "error", 500)]
    ELSE [db |-> [db EXCEPT !.user_events = @ \cup {UserEventRow(user_id, event_id, FALSE)}],
          ret |-> Ret("add_user_to_event", "ok", 200)]

\* DELETE /api/events/<id>: 404 for an unknown event, else DELETE its
\* user_events rows, DELETE the event, commit.
delete_event(db, event_id) ==
    IF ~\E e \in db.events : e.id = event_id
    THEN [db |-> db, ret |-> Ret("delete_event", "error", 404)]
    ELSE IF Locked(db)
    THEN [db |-> db, ret |-> Ret("delete_event", "error", 500)]
    ELSE [db |-> [db EXCEPT !.events = {e \in @ : e.id # event_id},
                            !.user_events = {r \in @ : r.event_id # event_id}],
          ret |-> Ret("delete_event", "ok", 200)]

\* "SELECT user_id ... WHERE event_id = ? AND is_organizer = 1", fetchone().
OrganizerOf(rows, event_id) ==
    LET orgs == {r.user_id : r \in {x \in rows : x.event_id = event_id /\ x.is_organizer}}
    IN  IF orgs = {} THEN NULL ELSE CHOOSE o \in orgs : TRUE

\* The loops of INSERT OR IGNORE ... is_organizer = 0 of update_event.
\* A loop of plain INSERTs into a table with no primary key.
RECURSIVE InsertOrIgnoreAll_no_key(_, _, _, _)
InsertOrIgnoreAll_no_key(rows, event_id, skip_id, ids) ==
    IF ids = <<>> THEN rows
    ELSE LET user_id == Head(ids)
             next == IF user_id = skip_id
                     THEN rows
                     ELSE rows \cup {UserEventRow(user_id, event_id, FALSE)}
         IN  InsertOrIgnoreAll_no_key(next, event_id, skip_id, Tail(ids))

RECURSIVE InsertOrIgnoreAll(_, _, _, _)
InsertOrIgnoreAll(rows, event_id, skip_id, ids) ==
    IF ids = <<>> THEN rows
    ELSE LET user_id == Head(ids)
             next == IF user_id = skip_id \/ PkViolation(rows, user_id, event_id)
                     THEN rows
                     ELSE rows \cup {UserEventRow(user_id, event_id, FALSE)}
         IN  InsertOrIgnoreAll(next, event_id, skip_id, Tail(ids))

\* Set mode that deletes every row of the event and inserts the list only.
set_participants_drop_organizer(rows, event_id, invited_users) ==
    InsertOrIgnoreAll({r \in rows : r.event_id # event_id}, event_id, NULL, invited_users)

\* update_event, user_operation = "set": DELETE the rows of the event with
\* is_organizer = 0 OR user_id != organizer (with no organizer the second
\* test is a comparison with NULL and selects nothing); INSERT OR IGNORE the
\* organizer; INSERT OR IGNORE the invited users other than the organizer.
set_participants(rows, event_id, invited_users) ==
    LET organizer_id == OrganizerOf(rows, event_id)
        kept == {r \in rows : ~(r.event_id = event_id /\
                                (~r.is_organizer \/
                                 (organizer_id # NULL /\ r.user_id # organizer_id)))}
        readded == IF organizer_id # NULL /\ ~PkViolation(kept, organizer_id, event_id)
                   THEN kept \cup {UserEventRow(organizer_id, event_id, TRUE)}
                   ELSE kept
    IN  InsertOrIgnoreAll(readded, event_id, organizer_id, invited_users)

\* Add mode that first deletes the rows of the event that are not the
\* organizer's.
add_participants_replaces(rows, event_id, invited_users) ==
    InsertOrIgnoreAll({r \in rows : r.event_id # event_id \/ r.is_organizer},
                      event_id, NULL, invited_users)

\* update_event, any other user_operation: INSERT OR IGNORE every invited user.
add_participants(rows, event_id, invited_users) ==
    InsertOrIgnoreAll(rows, event_id, NULL, invited_users)

\* The request body of PATCH /api/events/<id>.
UpdateData(start_time, end_time, has_invited, invited_users, user_operation) ==
    [start_time |-> start_time, end_time |-> end_time, has_invited |-> has_invited,
     invited_users |-> invited_users, user_operation |-> user_operation]

\* An empty JSON body is falsy.
EmptyData(data) ==
    data.start_time = Absent /\ data.end_time = Absent /\ ~data.has_invited

\* An UPDATE that sets start_time and end_time to data.get(field) whether
\* the body names them or not.
update_writes_all_fields(db, event_id, data) ==
    LET updated == {IF e.id = event_id
                    THEN [e EXCEPT !.start_time = data.start_time,
                                   !.end_time = data.end_time]
                    ELSE e : e \in db.events}
        rows == IF ~data.has_invited THEN db.user_events
                ELSE IF data.user_operation = "set"
                THEN set_participants(db.user_events, event_id, data.invited_users)
                ELSE add_participants(db.user_events, event_id, data.invited_users)
    IN  [db EXCEPT !.events = updated, !.user_events = rows]

\* The statements of update_event between the existence check and the
\* commit: UPDATE the fields the body names (no row if the event is gone),
\* then the participant operation.
update_writes(db, event_id, data) ==
    LET updated == {IF e.id = event_id
                    THEN [e EXCEPT
                            !.start_time = IF data.start_time # Absent
                                           THEN data.start_time ELSE @,
                            !.end_time = IF data.end_time # Absent
                                         THEN data.end_time ELSE @]
                    ELSE e : e \in db.events}
        rows == IF ~data.has_invited THEN db.user_events
                ELSE IF data.user_operation = "set"
                THEN set_participants(db.user_events, event_id, data.invited_users)
                ELSE add_participants(db.user_events, event_id, data.invited_users)
    IN  [db EXCEPT !.events = updated, !.user_events = rows]

\* PATCH /api/events/<id>: 400 for an empty body, 404 for an unknown event;
\* UPDATE the fields the body names, with no check of start against end;
\* then the participant operation; commit.  Any exception (the file locked,
\* an id that cannot be bound): rollback, 500.
update_event(db, event_id, data) ==
    IF EmptyData(data)
    THEN [db |-> db, ret |-> Ret("update_event", "error", 400)]
    ELSE IF ~\E e \in db.events : e.id = event_id
    THEN [db |-> db, ret |-> Ret("update_event", "error", 404)]
    ELSE IF Locked(db)
    THEN [db |-> db, ret |-> Ret("update_event", "error", 500)]
    ELSE IF data.has_invited /\ TooLarge \in Range(data.invited_users)
    THEN [db |-> db, ret |-> Ret("update_event", "error", 500)]
    ELSE [db |-> update_writes(db, event_id, data),
          ret |-> Ret("update_event", "ok", 200)]

(***************************************************************************)
(* Read operations of CalendarDatabaseModel.                               *)
(***************************************************************************)
MinutesPerHour == 60
DefaultStartHour == 9
DefaultEndHour == 17

\* The WHERE clause shared by check_user_availability and
\* get_available_meeting_rooms, with its parameters in the order bound.
ThreeClauseConflict(ev_start, ev_end, start_time, end_time) ==
    \/ ev_start <= end_time /\ ev_end > start_time
    \/ ev_start < end_time /\ ev_end >= start_time
    \/ ev_start >= start_time /\ ev_end <= end_time

\* "events e JOIN user_events ue ON e.id = ue.event_id WHERE ue.user_id = ?"
EventsOfUser(db, user_id) ==
    {e \in ViewEvents(db) :
        \E r \in ViewUserEvents(db) : r.event_id = e.id /\ r.user_id = user_id}

\* check_user_availability: COUNT(*) of the user's events matching the
\* three-clause condition is 0.
check_user_availability(db, user_id, start_time, end_time) ==
    {e \in EventsOfUser(db, user_id) :
        ThreeClauseConflict(e.start_time, e.end_time, start_time, end_time)} = {}

\* The room query without "m.is_virtual = 1 OR": a virtual room is treated
\* like a physical one.
get_available_meeting_rooms_no_virtual(db, start_time, end_time, min_capacity) ==
    LET booked == {e.meeting_room_id :
                     e \in {x \in ViewEvents(db) :
                              /\ x.meeting_room_id # NULL
                              /\ ThreeClauseConflict(x.start_time, x.end_time,
                                                     start_time, end_time)}}
    IN  {m \in db.meeting_rooms : m.capacity >= min_capacity /\ m.id \notin booked}

\* get_available_meeting_rooms: capacity >= min_capacity AND (is_virtual OR
\* id NOT IN (rooms of the events matching the three-clause condition)).
get_available_meeting_rooms(db, start_time, end_time, min_capacity) ==
    LET booked == {e.meeting_room_id :
                     e \in {x \in ViewEvents(db) :
                              /\ x.meeting_room_id # NULL
                              /\ ThreeClauseConflict(x.start_time, x.end_time,
                                                     start_time, end_time)}}
    IN  {m \in db.meeting_rooms :
            m.capacity >= min_capacity /\ (m.is_virtual \/ m.id \notin booked)}

\* datetime.date() and datetime.combine(date, time(hour, 0)).
DateOf(t) == t \div HoursPerDay
Combine(date, hour) == date * HoursPerDay + hour

\* The events find_common_available_time fetches for one user: those that
\* start at or after start_date AND end at or before end_date.
FetchedEvents(db, user_id, start_date, end_date) ==
    {e \in EventsOfUser(db, user_id) :
        e.start_time >= start_date /\ e.end_time <= end_date}

\* The overlap test of find_common_available_time.
SlotConflict(ev_start, ev_end, slot_start, slot_end) ==
    ev_start <= slot_end /\ ev_end > slot_start

Slot(start_time, end_time) == [start_time |-> start_time, end_time |-> end_time]

\* The pass over the hours of a day without the test of slot_end against the
\* end of the search range.
RECURSIVE SlotsOfDay_no_skip(_, _, _, _, _, _)
SlotsOfDay_no_skip(fetched, date, hour, end_hour, duration_minutes, end_date) ==
    IF hour >= end_hour THEN <<>>
    ELSE LET slot_start == Combine(date, hour)
             slot_end == slot_start + duration_minutes \div MinutesPerHour
             rest == SlotsOfDay_no_skip(fetched, date, hour + 1, end_hour,
                                        duration_minutes, end_date)
         IN  IF \E e \in fetched :
                   SlotConflict(e.start_time, e.end_time, slot_start, slot_end)
             THEN rest
             ELSE <<Slot(slot_start, slot_end)>> \o rest

\* One pass of "for hour in range(start_hour, end_hour)" from `hour` on.
RECURSIVE SlotsOfDay(_, _, _, _, _, _)
SlotsOfDay(fetched, date, hour, end_hour, duration_minutes, end_date) ==
    IF hour >= end_hour THEN <<>>
    ELSE LET slot_start == Combine(date, hour)
             slot_end == slot_start + duration_minutes \div MinutesPerHour
             rest == SlotsOfDay(fetched, date, hour + 1, end_hour, duration_minutes, end_date)
         IN  IF slot_end > end_date THEN rest
             ELSE IF \E e \in fetched :
                        SlotConflict(e.start_time, e.end_time, slot_start, slot_end)
             THEN rest
             ELSE <<Slot(slot_start, slot_end)>> \o rest

\* The loop over the days that puts the slots of the later days first.
RECURSIVE SlotsFrom_later_days_first(_, _, _, _, _, _)
SlotsFrom_later_days_first(fetched, date, start_hour, end_hour, duration_minutes, end_date) ==
    IF date > DateOf(end_date) THEN <<>>
    ELSE SlotsFrom_later_days_first(fetched, date + 1, start_hour, end_hour,
                                    duration_minutes, end_date)
         \o SlotsOfDay(fetched, date, start_hour, end_hour, duration_minutes, end_date)

\* "while current_date <= end_datetime.date()" from `date` on.
RECURSIVE SlotsFrom(_, _, _, _, _, _)
SlotsFrom(fetched, date, start_hour, end_hour, duration_minutes, end_date) ==
    IF date > DateOf(end_date) THEN <<>>
    ELSE SlotsOfDay(fetched, date, start_hour, end_hour, duration_minutes, end_date)
         \o SlotsFrom(fetched, date + 1, start_hour, end_hour, duration_minutes, end_date)

\* find_common_available_time: the list of accepted slots, day-major and
\* hour-minor.  Durations are whole hours.
find_common_available_time(db, user_ids, duration_minutes, start_date, end_date, start_hour, end_hour) ==
    LET fetched == UNION {FetchedEvents(db, u, start_date, end_date) : u \in Range(user_ids)}
    IN  SlotsFrom(fetched, DateOf(start_date), start_hour, end_hour,
                  duration_minutes, end_date)

(***************************************************************************)
(* The store as a state machine: one action per operation.                 *)
(***************************************************************************)
NoRet == Ret("none", "ok", 0)
NoCall == [op |-> "none"]

RoomCapacities == {2, 4}
RoomRefs == {NULL} \cup (1..MaxRooms)
OptTimes == Times \cup {Absent}

OnlineRoom == [id |-> OnlineRoomId, name |-> "Online Meeting",
               capacity |-> OnlineRoomCapacity, is_virtual |-> TRUE]

\* The file after CalendarDatabaseModel.__init__ on a new path: the four
\* empty tables and the virtual room of setup_database.
Init ==
    /\ users = {}
    /\ meeting_rooms = {OnlineRoom}
    /\ events = {}
    /\ user_events = {}
    /\ event_seq = 0
    /\ txn = EmptyTxn
    /\ ret = NoRet
    /\ call = NoCall

\* The step that replaces the database by r.db and returns r.ret.
Apply(r) ==
    /\ users' = r.db.users
    /\ meeting_rooms' = r.db.meeting_rooms
    /\ events' = r.db.events
    /\ user_events' = r.db.user_events
    /\ event_seq' = r.db.event_seq
    /\ txn' = r.db.txn
    /\ ret' = r.ret
    /\ UNCHANGED call

\* The same step with a note of the call left in call.
ApplyRows(c, r) ==
    /\ call' = c
    /\ users' = r.db.users
    /\ meeting_rooms' = r.db.meeting_rooms
    /\ events' = r.db.events
    /\ user_events' = r.db.user_events
    /\ event_seq' = r.db.event_seq
    /\ txn' = r.db.txn
    /\ ret' = r.ret

\* The operations below differ in the part of the request they vary: the
\* participant actions create every event on one fixed hour with no room
\* and vary the people; the scheduling actions keep one organizer and vary
\* the times and the room.

\* A new user with an address nobody has yet.
RegisterUser ==
    /\ Cardinality(users) < MaxRegistered
    /\ Apply(add_user(Db, 1, NextUserId(Db)))

CreateEvent ==
    /\ NextEventId(Db) <= MaxEventSeq
    /\ \E organizer_id \in UserIds \cup {NULL}, attendee_ids \in UserLists :
          Apply(create_event(Db, FirstTime, FirstTime + 1, organizer_id, attendee_ids, NULL))

AppCreateEvent ==
    /\ NextEventId(Db) <= MaxEventSeq
    /\ \E user_id \in UserIds \cup {NULL}, invited_users \in UserLists :
          Apply(app_create_event(Db, FirstTime, FirstTime + 1, user_id, invited_users, NULL))

AddUserToEvent ==
    \E event_id \in EventIds, user_id \in UserIds :
        Apply(add_user_to_event(Db, event_id, user_id))

UpdateParticipants ==
    \E event_id \in EventIds, invited_users \in UserLists, user_operation \in {"set", "add"} :
        Apply(update_event(Db, event_id,
                           UpdateData(Absent, Absent, TRUE, invited_users, user_operation)))

CancelEvent ==
    \E event_id \in EventIds : Apply(cancel_event(Db, event_id))

DeleteEvent ==
    \E event_id \in EventIds : Apply(delete_event(Db, event_id))

Next ==
    \/ RegisterUser
    \/ CreateEvent
    \/ AppCreateEvent
    \/ AddUserToEvent
    \/ UpdateParticipants
    \/ CancelEvent
    \/ DeleteEvent

Spec == Init /\ [][Next]_vars

AddUser ==
    \E name \in Names, email \in Emails : Apply(add_user(Db, name, email))

AppCreateUser ==
    \E username \in Names, email \in Emails \cup {Absent} :
        Apply(app_create_user(Db, username, email))

NextUsers ==
    \/ AddUser
    \/ AppCreateUser

SpecUsers == Init /\ [][NextUsers]_vars

\* setup_database run again on the store's own connection: the tables are
\* there, INSERT OR IGNORE of the room with id 1, commit (of whatever the
\* connection had pending as well).
setup_database(db) ==
    [db |-> Commit([db EXCEPT !.meeting_rooms =
                        IF \E m \in @ : m.id = OnlineRoomId THEN @ ELSE @ \cup {OnlineRoom}]),
     ret |-> Ret("setup_database", "ok", OnlineRoomId)]

\* CalendarDatabaseModel(db_path) on the file of a store that is in use: a
\* second connection runs setup_database.  Its INSERT OR IGNORE needs the
\* write lock of the file; while the first connection has a transaction
\* open the INSERT raises "database is locked" out of __init__.
open_store(db) ==
    IF Locked(db)
    THEN [db |-> db, ret |-> Ret("setup_database", "error", OnlineRoomId)]
    ELSE setup_database(db)

SetupDatabase == Apply(setup_database(Db))

OpenStore == Apply(open_store(Db))

AddMeetingRoom ==
    /\ Cardinality(meeting_rooms) < MaxRooms
    /\ \E capacity \in RoomCapacities, is_virtual \in BOOLEAN :
          Apply(add_meeting_room(Db, capacity, is_virtual))

ScheduleEvent ==
    /\ NextEventId(Db) <= MaxEventSeq
    /\ \E start_time \in Times, end_time \in Times, meeting_room_id \in RoomRefs :
          Apply(create_event(Db, start_time, end_time, 1, <<>>, meeting_room_id))

AppScheduleEvent ==
    /\ NextEventId(Db) <= MaxEventSeq
    /\ \E start_time \in Times, end_time \in Times, meeting_room_id \in RoomRefs :
          Apply(app_create_event(Db, start_time, end_time, 1, <<>>, meeting_room_id))

Reschedule ==
    \E event_id \in EventIds, start_time \in OptTimes, end_time \in OptTimes :
        Apply(update_event(Db, event_id,
                           UpdateData(start_time, end_time, FALSE, <<>>, "set")))

NextSchedule ==
    \/ AddMeetingRoom
    \/ ScheduleEvent
    \/ AppScheduleEvent
    \/ Reschedule
    \/ CancelEvent
    \/ DeleteEvent

SpecSchedule == Init /\ [][NextSchedule]_vars

\* The store with its users and rooms, set up again from time to time.
NextSetup ==
    \/ AddUser
    \/ AddMeetingRoom
    \/ SetupDatabase
    \/ OpenStore

SpecSetup == Init /\ [][NextSetup]_vars

(***************************************************************************)
(* The read operations, applied once to a store that holds events drawn    *)
(* from a span of hours of day 0.  create_event accepts any of these       *)
(* events, so every such store is one the program can be in.               *)
(***************************************************************************)
AvailTimes == FirstTime..(FirstTime + MaxSpan)
Intervals == {iv \in AvailTimes \X AvailTimes : iv[1] < iv[2]}

\* The users 1..MaxUsers, all registered.
AllUsers == {UserRow(u, 1, u) : u \in UserIds}

\* The virtual room of setup_database and the physical rooms 2..MaxRooms.
PhysicalRoom(id) == [id |-> id, name |-> "room",
                     capacity |-> IF id % 2 = 0 THEN 4 ELSE 2, is_virtual |-> FALSE]
AllRooms == {OnlineRoom} \cup {PhysicalRoom(id) : id \in 2..MaxRooms}

\* n events, event i at interval iv[i] in room rm[i] with organizer org[i].
StoredEvents(n, iv, rm) == {EventRow(i, iv[i][1], iv[i][2], rm[i]) : i \in 1..n}
StoredRows(n, org) == {UserEventRow(org[i], i, TRUE) : i \in 1..n}

InitAvail ==
    /\ users = AllUsers
    /\ meeting_rooms = AllRooms
    /\ \E n \in 0..MaxEventSeq :
         \E iv \in [1..n -> Intervals], org \in [1..n -> UserIds] :
            /\ events = StoredEvents(n, iv, [i \in 1..n |-> NULL])
            /\ user_events = StoredRows(n, org)
            /\ event_seq = n
    /\ txn = EmptyTxn
    /\ ret = NoRet
    /\ call = NoCall

InitRooms ==
    /\ users = AllUsers
    /\ meeting_rooms = AllRooms
    /\ \E n \in 0..MaxEventSeq :
         \E iv \in [1..n -> Intervals], rm \in [1..n -> RoomRefs] :
            /\ events = StoredEvents(n, iv, rm)
            /\ user_events = StoredRows(n, [i \in 1..n |-> 1])
            /\ event_seq = n
    /\ txn = EmptyTxn
    /\ ret = NoRet
    /\ call = NoCall

\* A read leaves the database alone and hands back its result.
Answer(q) ==
    /\ call = NoCall
    /\ call' = q
    /\ UNCHANGED <<users, meeting_rooms, events, user_events, event_seq, txn, ret>>

CheckUserAvailability ==
    \E user_id \in UserIds, iv \in Intervals :
        Answer([op |-> "check_user_availability", user_id |-> user_id,
                start_time |-> iv[1], end_time |-> iv[2],
                result |-> check_user_availability(Db, user_id, iv[1], iv[2])])

FinderUserLists == {<<u>> : u \in UserIds} \cup {<<1, u>> : u \in UserIds \ {1}}
FinderDurations == {MinutesPerHour, 2 * MinutesPerHour}
FinderStartDates == {0, FirstTime + 1}
FinderEndDates == {FirstTime + 2, FirstTime + 3, HoursPerDay, 2 * HoursPerDay}
FinderHours == {<<DefaultStartHour, DefaultEndHour>>, <<FirstTime + 1, FirstTime + 3>>}

FindCommonAvailableTime ==
    \E user_ids \in FinderUserLists, duration_minutes \in FinderDurations,
       start_date \in FinderStartDates, end_date \in FinderEndDates, hours \in FinderHours :
        Answer([op |-> "find_common_available_time", user_ids |-> user_ids,
                duration_minutes |-> duration_minutes,
                start_date |-> start_date, end_date |-> end_date,
                start_hour |-> hours[1], end_hour |-> hours[2],
                result |-> find_common_available_time(Db, user_ids, duration_minutes,
                               start_date, end_date, hours[1], hours[2])])

NextAvail ==
    \/ CheckUserAvailability
    \/ FindCommonAvailableTime

SpecAvail == InitAvail /\ [][NextAvail]_vars

MinCapacities == {1, 3, 5}

GetAvailableMeetingRooms ==
    \E iv \in Intervals, min_capacity \in MinCapacities :
        Answer([op |-> "get_available_meeting_rooms",
                start_time |-> iv[1], end_time |-> iv[2], min_capacity |-> min_capacity,
                result |-> get_available_meeting_rooms(Db, iv[1], iv[2], min_capacity)])

NextRooms == GetAvailableMeetingRooms

SpecRooms == InitRooms /\ [][NextRooms]_vars

(***************************************************************************)
(* CalendarController._handle_availability_check for a user: the events    *)
(* of the user that start on the day, sorted by start, are the busy        *)
(* periods; the free periods come from a walk over them.                   *)
(***************************************************************************)
WorkStart == 9
WorkEnd == 17
LastHourOfDay == 23

\* The start_date and end_date get_user_events is called with: None (or the
\* empty string), a date "YYYY-MM-DD", or a timestamp "YYYY-MM-DDTHH:MM:SS".
NoBound == [kind |-> "none"]
DateBound(date) == [kind |-> "date", date |-> date]
TimeBound(time) == [kind |-> "datetime", time |-> time]

\* "e.start_time >= ?" and "e.start_time <= ?" compare TEXT: a stored
\* timestamp against a timestamp compares as the instants do; against a date
\* of another day the dates decide; against its own date the timestamp is
\* the longer string with the date as a prefix, hence the greater one.
TextGe(start_time, bound) ==
    IF bound.kind = "datetime" THEN start_time >= bound.time
    ELSE DateOf(start_time) >= bound.date
TextLe(start_time, bound) ==
    IF bound.kind = "datetime" THEN start_time <= bound.time
    ELSE DateOf(start_time) < bound.date

\* get_user_events: the events of the user whose start_time passes the
\* comparisons with the bounds that are given.
get_user_events(db, user_id, start_date, end_date) ==
    {e \in EventsOfUser(db, user_id) :
        /\ start_date.kind # "none" => TextGe(e.start_time, start_date)
        /\ end_date.kind # "none" => TextLe(e.start_time, end_date)}

\* "ORDER BY e.start_time" followed by the stable sort on the start: every
\* order of the rows in which the starts do not decrease (SQL leaves the
\* order of equal starts open).
OrderedByStart(S) ==
    {q \in [1..Cardinality(S) -> S] :
        /\ \A i, j \in 1..Cardinality(S) : i < j => q[i] # q[j]
        /\ \A i, j \in 1..Cardinality(S) : i < j => q[i].start_time <= q[j].start_time}

\* The loop over busy_periods with the cursor current_time, and the final
\* period up to work_end.
RECURSIVE free_periods(_, _, _)
free_periods(busy_periods, current_time, work_end) ==
    IF busy_periods = <<>>
    THEN IF current_time < work_end THEN <<Slot(current_time, work_end)>> ELSE <<>>
    ELSE LET b == Head(busy_periods)
             before == IF current_time < b.start_time
                       THEN <<Slot(current_time, b.start_time)>> ELSE <<>>
         IN  before \o free_periods(Tail(busy_periods), Max(current_time, b.end_time),
                                    work_end)

\* The hours between which the events of the day lie: around the start of
\* the working window, inside it, and around and after its end.
DayIntervals ==
    {iv \in {WorkStart - 1, WorkStart, WorkStart + 3, WorkEnd - 1, WorkEnd,
             WorkEnd + 1, WorkEnd + 2}
          \X {WorkStart - 1, WorkStart, WorkStart + 3, WorkEnd - 1, WorkEnd,
             WorkEnd + 1, WorkEnd + 2} : iv[1] < iv[2]}

InitBusy ==
    /\ users = AllUsers
    /\ meeting_rooms = AllRooms
    /\ \E n \in 0..MaxEventSeq :
         \E iv \in [1..n -> DayIntervals], org \in [1..n -> UserIds] :
            /\ events = StoredEvents(n, iv, [i \in 1..n |-> NULL])
            /\ user_events = StoredRows(n, org)
            /\ event_seq = n
    /\ txn = EmptyTxn
    /\ ret = NoRet
    /\ call = NoCall

\* The user branch of _handle_availability_check for day 0: with no event
\* that day the answer is "available all day", else the two lists.
HandleAvailabilityCheck ==
    \E user_id \in UserIds :
        LET found == get_user_events(Db, user_id, TimeBound(Combine(0, 0)),
                                   TimeBound(Combine(0, LastHourOfDay)))
        IN  \E busy_periods \in OrderedByStart(found) :
                Answer([op |-> "availability_check", user_id |-> user_id,
                        raised |-> "none",
                        all_day |-> (found = {}),
                        busy |-> busy_periods,
                        free |-> IF found = {} THEN <<>>
                                 ELSE free_periods(busy_periods, Combine(0, WorkStart),
                                                   Combine(0, WorkEnd))])

\* The room branch of _handle_availability_check: the events of the room
\* are asked of self.cursor, an attribute CalendarController does not have
\* (its __init__ sets model, ollama_url and llm_model), so the lookup raises
\* AttributeError before any row is read.
HandleRoomAvailabilityCheck ==
    \E room_id \in {m.id : m \in meeting_rooms} :
        Answer([op |-> "room_availability_check", room_id |-> room_id,
                raised |-> "AttributeError",
                all_day |-> FALSE, busy |-> <<>>, free |-> <<>>])

NextBusy == HandleAvailabilityCheck \/ HandleRoomAvailabilityCheck

SpecBusy == InitBusy /\ [][NextBusy]_vars

(***************************************************************************)
(* The cursor walk on its own, over the busy lists the user branch can     *)
(* build: up to MaxAttendees events of the day in the order of their       *)
(* starts.  create_event stores any start with any end, so an event may    *)
(* end at or before its start.                                             *)
(***************************************************************************)
BusyLists ==
    {q \in SeqsUpTo({Slot(t[1], t[2]) :
                        t \in {WorkStart - 1, WorkStart, WorkStart + 1, WorkStart + 3,
                               WorkEnd, WorkEnd + 1}
                           \X {WorkStart - 1, WorkStart, WorkStart + 1, WorkStart + 3,
                               WorkEnd, WorkEnd + 1}},
                    MaxAttendees) :
        \A i \in 1..(Len(q) - 1) : q[i].start_time <= q[i + 1].start_time}

FreePeriods ==
    \E busy_periods \in BusyLists :
        Answer([op |-> "free_periods", busy |-> busy_periods,
                free |-> free_periods(busy_periods, Combine(0, WorkStart),
                                      Combine(0, WorkEnd))])

SpecWalk == Init /\ [][FreePeriods]_vars

(***************************************************************************)
(* One listing of a user's events, over stores whose events start at       *)
(* midnight or in the morning of the days 0..MaxTime.                      *)
(***************************************************************************)
ListStarts == {Combine(d, h) : d \in 0..MaxTime, h \in {0, DefaultStartHour}}
ListBounds == {NoBound} \cup {DateBound(d) : d \in 0..MaxTime}
                        \cup {TimeBound(t) : t \in ListStarts}

InitList ==
    /\ users = AllUsers
    /\ meeting_rooms = AllRooms
    /\ \E n \in 0..MaxEventSeq :
         \E iv \in [1..n -> {<<t, t + 1>> : t \in ListStarts}], org \in [1..n -> UserIds] :
            /\ events = StoredEvents(n, iv, [i \in 1..n |-> NULL])
            /\ user_events = StoredRows(n, org)
            /\ event_seq = n
    /\ txn = EmptyTxn
    /\ ret = NoRet
    /\ call = NoCall

GetUserEvents ==
    \E user_id \in UserIds, start_date \in ListBounds, end_date \in ListBounds :
        \E rows \in OrderedByStart(get_user_events(Db, user_id, start_date, end_date)) :
            Answer([op |-> "get_user_events", user_id |-> user_id,
                    start_date |-> start_date, end_date |-> end_date, rows |-> rows])

SpecList == InitList /\ [][GetUserEvents]_vars

(***************************************************************************)
(* Requests of app.py served at the same time.  Every request opens its    *)
(* own connection (get_db_connection): the rows it has written are seen by *)
(* the others only after its commit, every SELECT outside a transaction    *)
(* reads the file as it is at that moment, and the first INSERT, UPDATE or *)
(* DELETE of a request takes the write lock of the file, which it keeps    *)
(* until its commit; a request that finds the lock taken may wait, and     *)
(* fails with "database is locked" when the wait runs out.  txn.open says  *)
(* the lock is taken.  call holds the position of each request: a PATCH    *)
(* and a DELETE of event 1, a POST of a new event and a GET of one event.  *)
(***************************************************************************)
InitRequests ==
    /\ users = AllUsers
    /\ meeting_rooms = AllRooms
    /\ events = {EventRow(1, FirstTime, FirstTime + 1, NULL)}
    /\ user_events = {UserEventRow(1, 1, TRUE)}
    /\ event_seq = 1
    /\ txn = EmptyTxn
    /\ ret = NoRet
    /\ \E user_operation \in {"set", "add"}, get_id \in 1..2 :
          call = [op |-> "requests",
                  patch |-> "start", delete |-> "start", post |-> "start", get |-> "start",
                  data |-> UpdateData(FirstTime + 2, FirstTime + 3, TRUE, <<MaxUsers>>,
                                     user_operation),
                  get_id |-> get_id,
                  event |-> {}, organizer |-> NULL, participants |-> {}]

\* update_event, the SELECT that looks the event up: 404 if it is not there.
PatchCheck ==
    /\ call.patch = "start"
    /\ IF \E e \in events : e.id = 1
       THEN ApplyRows([call EXCEPT !.patch = "checked"],
                      [db |-> Db,
                       ret |-> ret])
       ELSE ApplyRows([call EXCEPT !.patch = "done"],
                      [db |-> Db,
                       ret |-> Ret("update_event", "error", 404)])

\* update_event, its first UPDATE takes the write lock.
PatchBegin ==
    /\ call.patch = "checked"
    /\ ~Locked(Db)
    /\ ApplyRows([call EXCEPT !.patch = "writing"],
                 [db |-> Begin(Db),
                  ret |-> ret])

\* update_event, "database is locked": rollback, 500.
PatchBusy ==
    /\ call.patch = "checked"
    /\ Locked(Db)
    /\ ApplyRows([call EXCEPT !.patch = "done"],
                 [db |-> Db,
                  ret |-> Ret("update_event", "error", 500)])

\* update_event, conn.commit() of its statements.
PatchCommit ==
    /\ call.patch = "writing"
    /\ ApplyRows([call EXCEPT !.patch = "done"],
                 [db |-> update_writes(Rollback(Db), 1, call.data),
                  ret |-> Ret("update_event", "ok", 200)])

\* delete_event, the SELECT that looks the event up.
DeleteCheck ==
    /\ call.delete = "start"
    /\ IF \E e \in events : e.id = 1
       THEN ApplyRows([call EXCEPT !.delete = "checked"],
                      [db |-> Db,
                       ret |-> ret])
       ELSE ApplyRows([call EXCEPT !.delete = "done"],
                      [db |-> Db,
                       ret |-> Ret("delete_event", "error", 404)])

DeleteBegin ==
    /\ call.delete = "checked"
    /\ ~Locked(Db)
    /\ ApplyRows([call EXCEPT !.delete = "writing"],
                 [db |-> Begin(Db),
                  ret |-> ret])

DeleteBusy ==
    /\ call.delete = "checked"
    /\ Locked(Db)
    /\ ApplyRows([call EXCEPT !.delete = "done"],
                 [db |-> Db,
                  ret |-> Ret("delete_event", "error", 500)])

\* delete_event, conn.commit() of the two DELETEs.
DeleteCommit ==
    /\ call.delete = "writing"
    /\ LET db == Rollback(Db)
       IN  ApplyRows([call EXCEPT !.delete = "done"],
                     [db |-> [db EXCEPT !.events = {e \in @ : e.id # 1}, !.user_events = {r \in @ : r.event_id # 1}],
                      ret |-> Ret("delete_event", "ok", 200)])

\* create_event of app.py, its INSERT of the event takes the write lock.
PostBegin ==
    /\ call.post = "start"
    /\ ~Locked(Db)
    /\ ApplyRows([call EXCEPT !.post = "writing"],
                 [db |-> Begin(Db),
                  ret |-> ret])

PostBusy ==
    /\ call.post = "start"
    /\ Locked(Db)
    /\ ApplyRows([call EXCEPT !.post = "done"],
                 [db |-> Db,
                  ret |-> Ret("app_create_event", "error", 500)])

\* create_event of app.py, conn.commit() of the event, the organizer row
\* and the row of the invited user.
PostCommit ==
    /\ call.post = "writing"
    /\ LET r == app_create_event(Rollback(Db), FirstTime, FirstTime + 1, 1,
                                 call.data.invited_users, NULL)
       IN  ApplyRows([call EXCEPT !.post = "done"],
                     [db |-> r.db,
                      ret |-> r.ret])

\* get_event, the SELECT of the event: 404 if it is not there.
GetEvent ==
    /\ call.get = "start"
    /\ LET found == {e \in events : e.id = call.get_id}
       IN  IF found = {}
           THEN ApplyRows([call EXCEPT !.get = "not found"],
                          [db |-> Db,
                           ret |-> ret])
           ELSE ApplyRows([call EXCEPT !.get = "event", !.event = found],
                          [db |-> Db,
                           ret |-> ret])

\* get_event, the SELECT of the organizer.
GetOrganizer ==
    /\ call.get = "event"
    /\ ApplyRows([call EXCEPT !.get = "organizer",
                             !.organizer = OrganizerOf(user_events, call.get_id)],
                 [db |-> Db,
                  ret |-> ret])

\* get_event, the SELECT of the participants that are users; the response.
GetParticipants ==
    /\ call.get = "organizer"
    /\ ApplyRows([call EXCEPT
                    !.get = "done",
                    !.participants =
                        {r.user_id : r \in {x \in user_events :
                            /\ x.event_id = call.get_id
                            /\ \E u \in users : u.id = x.user_id}}],
                 [db |-> Db,
                  ret |-> ret])

NextRequests ==
    \/ PatchCheck
    \/ PatchBegin
    \/ PatchBusy
    \/ PatchCommit
    \/ DeleteCheck
    \/ DeleteBegin
    \/ DeleteBusy
    \/ DeleteCommit
    \/ PostBegin
    \/ PostBusy
    \/ PostCommit
    \/ GetEvent
    \/ GetOrganizer
    \/ GetParticipants

SpecRequests == InitRequests /\ [][NextRequests]_vars

(***************************************************************************)
(* The conflict tests on their own: each applied to an event interval a    *)
(* and a requested interval b, and to the two exchanged.                   *)
(***************************************************************************)
ConflictTest(test, a, b, result, swapped) ==
    Answer([op |-> "conflict_test", test |-> test, a |-> a, b |-> b,
            result |-> result, swapped |-> swapped])

AvailabilityConflictTest ==
    \E a \in Intervals, b \in Intervals :
        ConflictTest("check_user_availability", a, b,
                     ThreeClauseConflict(a[1], a[2], b[1], b[2]),
                     ThreeClauseConflict(b[1], b[2], a[1], a[2]))

RoomConflictTest ==
    \E a \in Intervals, b \in Intervals :
        ConflictTest("get_available_meeting_rooms", a, b,
                     ThreeClauseConflict(a[1], a[2], b[1], b[2]),
                     ThreeClauseConflict(b[1], b[2], a[1], a[2]))

SlotConflictTest ==
    \E a \in Intervals, b \in Intervals :
        ConflictTest("find_common_available_time", a, b,
                     SlotConflict(a[1], a[2], b[1], b[2]),
                     SlotConflict(b[1], b[2], a[1], a[2]))

NextConflict ==
    \/ AvailabilityConflictTest
    \/ RoomConflictTest
    \/ SlotConflictTest

SpecConflict == Init /\ [][NextConflict]_vars

(***************************************************************************)
(* The write operations, applied once to a store the program can have      *)
(* built, with the call logged: events 1..n, each live or cancelled by      *)
(* cancel_event (its rows left behind), each with any participants of      *)
(* which at most one is the organizer.  app.py's create_event with or       *)
(* without user_id builds every such event.                                 *)
(***************************************************************************)
Roles == {"none", "attendee", "organizer"}

RoleMaps == {f \in [UserIds -> Roles] :
                Cardinality({u \in UserIds : f[u] = "organizer"}) <= 1}

RowsOf(event_id, roles) ==
    {UserEventRow(u, event_id, roles[u] = "organizer") :
        u \in {x \in UserIds : roles[x] # "none"}}

InitStore ==
    /\ users = {UserRow(u, 1, u) : u \in 1..MaxRegistered}
    /\ meeting_rooms = {OnlineRoom}
    /\ \E n \in 0..MaxEventSeq :
         \E live \in [1..n -> BOOLEAN], roles \in [1..n -> RoleMaps] :
            /\ events = {EventRow(i, FirstTime, FirstTime + 1, NULL) :
                            i \in {x \in 1..n : live[x]}}
            /\ user_events = UNION {RowsOf(i, roles[i]) : i \in 1..n}
            /\ event_seq = n
    /\ txn = EmptyTxn
    /\ ret = NoRet
    /\ call = NoCall

\* The one logged call: c records it, r is its outcome.
Once(c, r) ==
    /\ call = NoCall
    /\ call' = c
    /\ users' = r.db.users
    /\ meeting_rooms' = r.db.meeting_rooms
    /\ events' = r.db.events
    /\ user_events' = r.db.user_events
    /\ event_seq' = r.db.event_seq
    /\ txn' = r.db.txn
    /\ ret' = r.ret

CreateEventOnce ==
    \E organizer_id \in UserIds \cup {NULL}, attendee_ids \in AttendeeLists :
        LET r == create_event(Db, FirstTime, FirstTime + 1, organizer_id, attendee_ids, NULL)
        IN  Once([op |-> "create_event", organizer_id |-> organizer_id,
                  attendee_ids |-> attendee_ids, before |-> Db, ret |-> r.ret], r)

AppCreateEventOnce ==
    \E user_id \in UserIds \cup {NULL}, invited_users \in AttendeeLists :
        LET r == app_create_event(Db, FirstTime, FirstTime + 1, user_id, invited_users, NULL)
        IN  Once([op |-> "app_create_event", organizer_id |-> user_id,
                  attendee_ids |-> invited_users, before |-> Db, ret |-> r.ret], r)

UpdateParticipantsOnce ==
    \E event_id \in EventIds, invited_users \in AttendeeLists, user_operation \in {"set", "add"} :
        LET r == update_event(Db, event_id,
                              UpdateData(Absent, Absent, TRUE, invited_users, user_operation))
        IN  Once([op |-> "update_event", event_id |-> event_id,
                  invited_users |-> invited_users, user_operation |-> user_operation,
                  before |-> Db, ret |-> r.ret], r)

\* After the logged call has failed, the shared connection commits for
\* another reason: a new user is added.
AddUserLater ==
    /\ call # NoCall
    /\ ret.op # "add_user"
    /\ ret.status = "error"
    /\ Apply(add_user(Db, 1, NextUserId(Db)))

\* One createEvent, and what the shared connection does after it.
NextCreate ==
    \/ CreateEventOnce
    \/ AppCreateEventOnce
    \/ AddUserLater

SpecCreate == InitStore /\ [][NextCreate]_vars

CancelEventOnce ==
    \E event_id \in EventIds :
        LET r == cancel_event(Db, event_id)
        IN  Once([op |-> "cancel_event", event_id |-> event_id, before |-> Db,
                  ret |-> r.ret], r)

DeleteEventOnce ==
    \E event_id \in EventIds :
        LET r == delete_event(Db, event_id)
        IN  Once([op |-> "delete_event", event_id |-> event_id, before |-> Db,
                  ret |-> r.ret], r)

AddUserToEventOnce ==
    \E event_id \in EventIds, user_id \in UserIds :
        LET r == add_user_to_event(Db, event_id, user_id)
        IN  Once([op |-> "add_user_to_event", event_id |-> event_id, user_id |-> user_id,
                  before |-> Db, ret |-> r.ret], r)

\* One call on an event of the store: an updateEvent with a participant
\* list, an add-user-to-event, a cancelEvent or a DELETE request.
NextUpdate ==
    \/ UpdateParticipantsOnce
    \/ AddUserToEventOnce
    \/ CancelEventOnce
    \/ DeleteEventOnce

SpecUpdate == InitStore /\ [][NextUpdate]_vars

(***************************************************************************)
(* One PATCH of event 1, which is stored or not, in some room or in none,  *)
(* next to event 2 with its organizer and an attendee.  The body names any *)
(* of start_time, end_time and invited_users.                              *)
(***************************************************************************)
InitPatch ==
    /\ users = AllUsers
    /\ meeting_rooms = AllRooms
    /\ \E live \in BOOLEAN, meeting_room_id \in RoomRefs, roles \in RoleMaps :
          /\ events = (IF live THEN {EventRow(1, FirstTime, FirstTime + 1, meeting_room_id)}
                               ELSE {})
                      \cup {EventRow(2, FirstTime, FirstTime + 1, NULL)}
          /\ user_events = RowsOf(1, roles) \cup
                           {UserEventRow(1, 2, TRUE), UserEventRow(2, 2, FALSE)}
    /\ event_seq = 2
    /\ txn = EmptyTxn
    /\ ret = NoRet
    /\ call = NoCall

PatchOnce ==
    \E start_time \in OptTimes, end_time \in OptTimes,
       body \in {<<FALSE, <<>>, "set">>} \cup
                ({TRUE} \X AttendeeLists \X {"set", "add"}) :
        LET has_invited == body[1]
            invited_users == body[2]
            user_operation == body[3]
            data == UpdateData(start_time, end_time, has_invited, invited_users, user_operation)
            r == update_event(Db, 1, data)
        IN  Once([op |-> "update_event", event_id |-> 1, data |-> data,
                  before |-> Db, ret |-> r.ret], r)

SpecPatch == InitPatch /\ [][PatchOnce]_vars

(***************************************************************************)
(* One call that books or moves an event, on a store whose events are in   *)
(* rooms: a createEvent through the model or through app.py with a room    *)
(* reference, or an updateEvent with a new start and end.                  *)
(***************************************************************************)
BookOnce ==
    \E iv \in Intervals, meeting_room_id \in RoomRefs :
        LET r == create_event(Db, iv[1], iv[2], 1, <<>>, meeting_room_id)
        IN  Once([op |-> "create_event", start_time |-> iv[1], end_time |-> iv[2],
                  meeting_room_id |-> meeting_room_id, before |-> Db, ret |-> r.ret], r)

AppBookOnce ==
    \E iv \in Intervals, meeting_room_id \in RoomRefs :
        LET r == app_create_event(Db, iv[1], iv[2], 1, <<>>, meeting_room_id)
        IN  Once([op |-> "app_create_event", start_time |-> iv[1], end_time |-> iv[2],
                  meeting_room_id |-> meeting_room_id, before |-> Db, ret |-> r.ret], r)

MoveOnce ==
    \E event_id \in EventIds, iv \in Intervals :
        LET r == update_event(Db, event_id, UpdateData(iv[1], iv[2], FALSE, <<>>, "set"))
        IN  Once([op |-> "update_event", event_id |-> event_id,
                  start_time |-> iv[1], end_time |-> iv[2], before |-> Db, ret |-> r.ret], r)

NextBooking ==
    \/ BookOnce
    \/ AppBookOnce
    \/ MoveOnce

SpecBooking == InitRooms /\ [][NextBooking]_vars

(***************************************************************************)
(* Sequences of the calls that write participation rows, each call leaving *)
(* behind what its list of ids was like: whether it repeated an id, and    *)
(* whether it named a user who already had a row on the event (for a       *)
(* create, the organizer of the event being created).                      *)
(***************************************************************************)
RowsCall(op, named_before, ids) ==
    [op |-> op,
     repeats |-> Len(ids) # Cardinality(Range(ids)),
     existing |-> Range(ids) \cap named_before # {}]

CreateEventRows ==
    /\ NextEventId(Db) <= MaxEventSeq
    /\ \E organizer_id \in UserIds \cup {NULL}, attendee_ids \in UserLists :
          ApplyRows(RowsCall("create_event", {organizer_id}, attendee_ids),
                    create_event(Db, FirstTime, FirstTime + 1, organizer_id, attendee_ids, NULL))

AppCreateEventRows ==
    /\ NextEventId(Db) <= MaxEventSeq
    /\ \E user_id \in UserIds \cup {NULL}, invited_users \in UserLists :
          ApplyRows(RowsCall("app_create_event", {user_id}, invited_users),
                    app_create_event(Db, FirstTime, FirstTime + 1, user_id, invited_users, NULL))

AddUserToEventRows ==
    \E event_id \in EventIds, user_id \in UserIds :
        ApplyRows(RowsCall("add_user_to_event",
                           {r.user_id : r \in {x \in user_events : x.event_id = event_id}},
                           <<user_id>>),
                  add_user_to_event(Db, event_id, user_id))

UpdateParticipantsRows ==
    \E event_id \in EventIds, invited_users \in UserLists, user_operation \in {"set", "add"} :
        ApplyRows(RowsCall("update_event",
                           {r.user_id : r \in {x \in user_events : x.event_id = event_id}},
                           invited_users),
                  update_event(Db, event_id,
                               UpdateData(Absent, Absent, TRUE, invited_users, user_operation)))

NextRows ==
    \/ RegisterUser
    \/ CreateEventRows
    \/ AppCreateEventRows
    \/ AddUserToEventRows
    \/ UpdateParticipantsRows

SpecRows == Init /\ [][NextRows]_vars

(***************************************************************************)
(* Sequences of createEvent and cancelEvent on the store's connection,     *)
(* with up to MaxSpan event ids.  call keeps the ids of the events that    *)
(* were committed before the last call, and the event ids that the         *)
(* participation rows named before it.                                     *)
(***************************************************************************)
IdsCall == [op |-> "ids",
            earlier |-> (IF call.op = "ids" THEN call.earlier ELSE {}) \cup {e.id : e \in events},
            stale |-> {r.event_id : r \in user_events}]

CreateEventIds ==
    /\ NextEventId(Db) <= MaxSpan
    /\ \E organizer_id \in {NULL, 1},
          attendee_ids \in {<<>>, <<1>>, <<MaxUsers>>, <<MaxUsers, MaxUsers>>, <<TooLarge>>} :
          ApplyRows(IdsCall,
                    create_event(Db, FirstTime, FirstTime + 1, organizer_id, attendee_ids, NULL))

AppCreateEventIds ==
    /\ NextEventId(Db) <= MaxSpan
    /\ \E user_id \in {NULL, 1},
          invited_users \in {<<>>, <<1>>, <<MaxUsers>>, <<MaxUsers, MaxUsers>>, <<TooLarge>>} :
          ApplyRows(IdsCall,
                    app_create_event(Db, FirstTime, FirstTime + 1, user_id, invited_users, NULL))

CancelEventIds ==
    \E event_id \in 1..MaxSpan : ApplyRows(IdsCall, cancel_event(Db, event_id))

NextIds ==
    \/ CreateEventIds
    \/ AppCreateEventIds
    \/ CancelEventIds

SpecIds == Init /\ [][NextIds]_vars

(***************************************************************************)
(* Properties.                                                             *)
(***************************************************************************)

\* The step is the call whose outcome is r: the database becomes r.db and
\* the caller receives r.ret.
StepIs(r) == Db' = r.db /\ ret' = r.ret

\* The half-open rule of the design: [s1,e1) and [s2,e2) share an instant.
Overlaps(s1, e1, s2, e2) == s1 < e2 /\ s2 < e1

ParticipantsOf(rows, event_id) == {r \in rows : r.event_id = event_id}
OrganizerRows(rows, event_id) == {r \in ParticipantsOf(rows, event_id) : r.is_organizer}

\* C1: checkUserAvailability(u, s, e) is true exactly when no event of u
\* overlaps [s, e) half-openly; an event that only touches the call at s
\* or at e leaves u available.
C1_AvailabilityIsHalfOpen ==
    call.op = "check_user_availability" =>
        (call.result <=>
            \A e \in EventsOfUser(Db, call.user_id) :
                ~Overlaps(e.start_time, e.end_time, call.start_time, call.end_time))

\* C2: findAvailableRooms returns exactly the rooms of sufficient capacity
\* that are virtual or have no event in them overlapping [start, end)
\* half-openly.
C2_RoomsAreHalfOpen ==
    call.op = "get_available_meeting_rooms" =>
        call.result =
            {m \in meeting_rooms :
                /\ m.capacity >= call.min_capacity
                /\ \/ m.is_virtual
                   \/ \A e \in events :
                        e.meeting_room_id = m.id =>
                            ~Overlaps(e.start_time, e.end_time,
                                      call.start_time, call.end_time)}

\* The events of the participants of the last finder call.
ParticipantEvents == UNION {EventsOfUser(Db, u) : u \in Range(call.user_ids)}

\* The hourly candidates of the last finder call that end inside the window.
Candidates ==
    {Slot(Combine(d, h), Combine(d, h) + call.duration_minutes \div MinutesPerHour) :
        d \in DateOf(call.start_date)..DateOf(call.end_date),
        h \in call.start_hour..(call.end_hour - 1)}

\* C3: findCommonAvailableTime returns every hourly candidate that ends
\* inside the window and overlaps, half-openly, no event of a listed
\* participant.
C3_FinderReturnsEveryFreeCandidate ==
    call.op = "find_common_available_time" =>
        \A c \in Candidates :
            (/\ c.end_time <= call.end_date
             /\ \A e \in ParticipantEvents :
                   ~Overlaps(e.start_time, e.end_time, c.start_time, c.end_time))
            => c \in Range(call.result)

\* C4: no slot findCommonAvailableTime returns overlaps a stored event of a
\* listed participant, wherever the event lies relative to the window.
C4_NoReturnedSlotOverlapsAnEvent ==
    call.op = "find_common_available_time" =>
        \A c \in Range(call.result), e \in ParticipantEvents :
            ~Overlaps(e.start_time, e.end_time, c.start_time, c.end_time)

\* C5: every participation row references an existing event, in every state
\* (cancelEvent removes the rows of the event it removes).
C5_NoOrphanParticipation ==
    \A r \in user_events : \E e \in events : e.id = r.event_id

\* An attendee list one of whose INSERTs fails: an id other than the
\* organizer's occurs twice, or cannot be bound.
FailingAttendee(organizer_id, attendee_ids) ==
    \/ TooLarge \in Range(attendee_ids)
    \/ \E i, j \in 1..Len(attendee_ids) :
          i < j /\ attendee_ids[i] = attendee_ids[j] /\ attendee_ids[i] # organizer_id

\* The logged createEvent had an INSERT fail after the event row was
\* written: no organizer id (create_event only; app.py writes no organizer
\* row then), or a failing attendee.
InsertFailed ==
    /\ call # NoCall
    /\ call.op \in {"create_event", "app_create_event"}
    /\ \/ call.op = "create_event" /\ call.organizer_id = NULL
       \/ FailingAttendee(call.organizer_id, call.attendee_ids)

\* C6: a createEvent one of whose INSERTs failed after the event row was
\* written returned an error, and the tables of the file hold the events and
\* the participation rows they held before it, also after a later commit by
\* another operation.
C6_CreateEventAllOrNothing ==
    InsertFailed =>
        /\ call.ret.status = "error"
        /\ events = call.before.events
        /\ user_events = call.before.user_events

\* C7: every stored event starts strictly before it ends.
C7_StartBeforeEnd ==
    \A e \in events : e.start_time < e.end_time

\* C8: every stored event has exactly one participation row flagged
\* is_organizer.
C8_ExactlyOneOrganizer ==
    \A e \in events : Cardinality(OrganizerRows(user_events, e.id)) = 1

\* C9: updateEvent in set mode with a list L of user ids on an event with
\* organizer o leaves the event with exactly the rows (o, organizer) and
\* (u, attendee) for the u of L other than o.
C9_SetKeepsOrganizer ==
    (/\ call # NoCall
     /\ call.op = "update_event"
     /\ call.user_operation = "set"
     /\ TooLarge \notin Range(call.invited_users)
     /\ \E e \in call.before.events : e.id = call.event_id
     /\ Cardinality(OrganizerRows(call.before.user_events, call.event_id)) = 1)
    => LET o == (CHOOSE r \in OrganizerRows(call.before.user_events, call.event_id) :
                    TRUE).user_id
       IN  /\ call.ret.status = "ok"
           /\ ParticipantsOf(user_events, call.event_id) =
                 {UserEventRow(o, call.event_id, TRUE)} \cup
                 {UserEventRow(u, call.event_id, FALSE) :
                     u \in Range(call.invited_users) \ {o}}

\* A set-mode update whose list omits the organizer has run on an event
\* that had an organizer and another participant.
C9_Witness ==
    /\ call # NoCall
    /\ call.op = "update_event"
    /\ call.user_operation = "set"
    /\ call.invited_users # <<>>
    /\ TooLarge \notin Range(call.invited_users)
    /\ call.ret.status = "ok"
    /\ \E e \in call.before.events : e.id = call.event_id
    /\ \E r \in OrganizerRows(call.before.user_events, call.event_id) :
          r.user_id \notin Range(call.invited_users)
    /\ Cardinality(ParticipantsOf(call.before.user_events, call.event_id)) >= 2

IdOfEmail(email) == (CHOOSE u \in users : u.email = email).id

\* C10: createUser with an e-mail that is already registered returns the id
\* of the user who has it, with no error, and adds no user row.
C10_DuplicateEmailReturnsExistingId ==
    [][\A name \in Names, email \in Emails :
          EmailTaken(Db, email) =>
             /\ StepIs(add_user(Db, name, email))
                => (ret'.status = "ok" /\ ret'.val = IdOfEmail(email) /\ users' = users)
             /\ StepIs(app_create_user(Db, name, email))
                => (ret'.status = "ok" /\ ret'.val = IdOfEmail(email) /\ users' = users)]_vars

\* The logged call is a cancelEvent, by either entry point.
IsCancel == call # NoCall /\ call.op \in {"cancel_event", "delete_event"}

\* The event the logged call names was stored when the call was made.
Existed == \E e \in call.before.events : e.id = call.event_id

\* C11: cancelEvent reports true exactly when the event existed, and then
\* the event is gone; for an unknown id it reports false without an error
\* and leaves every event and participation row as it was.
C11_CancelReportsRemoval ==
    IsCancel =>
        /\ call.ret.status = "ok"
        /\ Existed => ~\E e \in events : e.id = call.event_id
        /\ call.op = "cancel_event" => (call.ret.val = 1 <=> Existed)
        /\ ~Existed => (events = call.before.events /\
                        user_events = call.before.user_events)

\* C12: each conflict test gives the same answer for (A, B) as for (B, A),
\* and reports no conflict when A ends where B starts.
C12_ConflictTestsSymmetric ==
    call.op = "conflict_test" =>
        /\ call.result = call.swapped
        /\ call.a[2] = call.b[1] => ~call.result

\* The logged call is a findCommonAvailableTime.
IsFinder == call # NoCall /\ call.op = "find_common_available_time"

\* C13: every slot findCommonAvailableTime returns is one of the hourly
\* candidates, whole, and ends at or before the end of the search window.
C13_NoSlotEndsAfterTheWindow ==
    IsFinder =>
        \A c \in Range(call.result) :
            c \in Candidates /\ c.end_time <= call.end_date

\* A finder call that returned a slot and had a free candidate ending after
\* the end of the window, which it skipped.
C13_Witness ==
    /\ IsFinder
    /\ call.result # <<>>
    /\ \E c \in Candidates :
          /\ c.end_time > call.end_date
          /\ c \notin Range(call.result)
          /\ \A e \in ParticipantEvents :
                ~SlotConflict(e.start_time, e.end_time, c.start_time, c.end_time)

\* C14: the slots findCommonAvailableTime returns are in strictly increasing
\* order of start, and each starts on a day of the window at a whole hour h
\* with startHour <= h < endHour.
C14_SlotsStrictlyIncreasing ==
    IsFinder =>
        /\ \A i, j \in 1..Len(call.result) :
              i < j => call.result[i].start_time < call.result[j].start_time
        /\ \A i \in 1..Len(call.result) :
              \E d \in DateOf(call.start_date)..DateOf(call.end_date),
                 h \in call.start_hour..(call.end_hour - 1) :
                    call.result[i].start_time = Combine(d, h)

\* A finder call that returned slots of two different days, more than one
\* of them on one day.
C14_Witness ==
    /\ IsFinder
    /\ \E i, j, k \in 1..Len(call.result) :
          /\ i < j /\ j < k
          /\ DateOf(call.result[i].start_time) = DateOf(call.result[j].start_time)
          /\ DateOf(call.result[j].start_time) < DateOf(call.result[k].start_time)

\* The logged call is a Free/Busy computation that produced its two lists.
IsFreeBusy == call # NoCall /\ call.op = "availability_check" /\ ~call.all_day

\* C15: the busy and the free intervals of a Free/Busy computation cover
\* every hour of the working window, no free interval overlaps a busy one,
\* and no free interval reaches outside the working window.
C15_FreeBusyCoversTheWindow ==
    IsFreeBusy =>
        /\ \A t \in WorkStart..(WorkEnd - 1) :
              \E p \in Range(call.busy) \cup Range(call.free) :
                  p.start_time <= t /\ t + 1 <= p.end_time
        /\ \A f \in Range(call.free), b \in Range(call.busy) :
              ~Overlaps(f.start_time, f.end_time, b.start_time, b.end_time)
        /\ \A f \in Range(call.free) :
              WorkStart <= f.start_time /\ f.end_time <= WorkEnd

\* The logged call is a findAvailableRooms.
IsRoomQuery == call # NoCall /\ call.op = "get_available_meeting_rooms"

\* C16: findAvailableRooms returns every virtual room of sufficient
\* capacity, whatever events are stored.
C16_VirtualRoomAlwaysReturned ==
    IsRoomQuery =>
        \A m \in meeting_rooms :
            (m.is_virtual /\ m.capacity >= call.min_capacity) => m \in call.result

\* A room query over an interval in which an event is held in the virtual
\* room, and the virtual room is returned.
C16_Witness ==
    /\ IsRoomQuery
    /\ \E e \in events :
          /\ e.meeting_room_id = OnlineRoomId
          /\ Overlaps(e.start_time, e.end_time, call.start_time, call.end_time)
    /\ OnlineRoom \in call.result

\* The logged call is a createEvent with an organizer id that succeeded.
CreateSucceeded ==
    /\ call # NoCall
    /\ call.op \in {"create_event", "app_create_event"}
    /\ call.organizer_id # NULL
    /\ call.ret.status = "ok"

\* C17: a successful createEvent returns the id of a new event whose
\* participation rows are the organizer's, flagged, and one unflagged row
\* for each attendee id other than the organizer's.
C17_CreateEventWritesExactRows ==
    CreateSucceeded =>
        LET id == call.ret.val
        IN  /\ id > call.before.event_seq
            /\ ~\E e \in call.before.events : e.id = id
            /\ \E e \in events : e.id = id
            /\ events \ call.before.events = {e \in events : e.id = id}
            /\ ParticipantsOf(user_events, id) =
                  {UserEventRow(call.organizer_id, id, TRUE)} \cup
                  {UserEventRow(u, id, FALSE) :
                      u \in Range(call.attendee_ids) \ {call.organizer_id}}

\* A createEvent succeeded, on a store that held an event already, whose
\* attendee list names the organizer and another user.
C17_Witness ==
    /\ CreateSucceeded
    /\ call.op = "create_event"
    /\ call.organizer_id \in Range(call.attendee_ids)
    /\ Range(call.attendee_ids) \ {call.organizer_id} # {}
    /\ call.before.events # {}

\* The logged call adds participants to a stored event: an updateEvent in
\* add mode with a list of user ids, or an add-user-to-event for a
\* registered user.
IsAdd ==
    /\ call # NoCall
    /\ Existed
    /\ \/ /\ call.op = "update_event"
          /\ call.user_operation = "add"
          /\ TooLarge \notin Range(call.invited_users)
       \/ /\ call.op = "add_user_to_event"
          /\ \E u \in call.before.users : u.id = call.user_id

\* The ids the logged call adds.
Added == IF call.op = "update_event" THEN Range(call.invited_users) ELSE {call.user_id}

\* C18: adding participants succeeds, keeps every participation row as it
\* was, and adds one unflagged row for each id of the list that had no row
\* on the event.
C18_AddKeepsRows ==
    IsAdd =>
        /\ call.ret.status = "ok"
        /\ user_events = call.before.user_events \cup
              {UserEventRow(u, call.event_id, FALSE) :
                  u \in {x \in Added :
                            ~PkViolation(call.before.user_events, x, call.event_id)}}

\* An add-mode update ran on an event with an organizer, with a list naming
\* the organizer and a user not yet on the event.
C18_Witness ==
    /\ IsAdd
    /\ call.op = "update_event"
    /\ Cardinality(ParticipantsOf(call.before.user_events, call.event_id)) >= 1
    /\ \E r \in OrganizerRows(call.before.user_events, call.event_id) :
          r.user_id \in Range(call.invited_users)
    /\ \E u \in Range(call.invited_users) :
          ~PkViolation(call.before.user_events, u, call.event_id)

\* The logged createEvent names, as organizer or as attendee, an id that no
\* user had when the call was made.
NamesUnknownUser ==
    /\ call # NoCall
    /\ call.op \in {"create_event", "app_create_event"}
    /\ \E x \in ({call.organizer_id} \cup Range(call.attendee_ids)) \ {NULL} :
          ~\E u \in call.before.users : u.id = x

\* C19: a createEvent that names an unknown user fails and leaves the
\* events and the participation rows as they were.
C19_UnknownIdIsRejected ==
    NamesUnknownUser =>
        /\ call.ret.status = "error"
        /\ events = call.before.events
        /\ user_events = call.before.user_events

\* C20: the stored participation rows hold at most one row for a user and
\* an event, whatever calls came before.
C20_OneRowPerUserAndEvent ==
    \A r1 \in user_events, r2 \in user_events :
        (r1.user_id = r2.user_id /\ r1.event_id = r2.event_id) => r1 = r2

\* A call whose list repeated an id and named a user who was already on the
\* event has succeeded, and the event has its organizer and another user.
C20_Witness ==
    /\ call # NoCall
    /\ call.op = "update_event"
    /\ call.repeats
    /\ call.existing
    /\ ret.status = "ok"
    /\ \E e \in events :
          /\ OrganizerRows(user_events, e.id) # {}
          /\ Cardinality(ParticipantsOf(user_events, e.id)) >= 2

\* The instant a bound of a listing stands for: a date is its midnight.
InstantOf(bound) == IF bound.kind = "date" THEN Combine(bound.date, 0) ELSE bound.time

IsListing == call # NoCall /\ call.op = "get_user_events"

\* C21: a listing returns exactly the stored events of the user whose start
\* is at or after the start bound and at or before the end bound, each
\* bound restricting only when it is given, in ascending order of start.
C21_ListingIsInclusive ==
    IsListing =>
        /\ Range(call.rows) =
              {e \in events :
                  /\ PkViolation(user_events, call.user_id, e.id)
                  /\ call.start_date.kind # "none" => InstantOf(call.start_date) <= e.start_time
                  /\ call.end_date.kind # "none" => e.start_time <= InstantOf(call.end_date)}
        /\ \A i, j \in 1..Len(call.rows) :
              i < j => call.rows[i].start_time <= call.rows[j].start_time

\* The GET has answered with an event.
GetAnswered == call # NoCall /\ call.op = "requests" /\ call.get = "done"

\* C22: the answer of a GET that ran among the other requests shows the
\* event of the POST only with its organizer, and shows the new start of the
\* PATCH exactly when it shows the user the PATCH invited.
C22_ReaderSeesWholeWrites ==
    GetAnswered =>
        /\ call.get_id = 2 =>
              call.organizer = 1 /\ Range(call.data.invited_users) \subseteq call.participants
        /\ call.get_id = 1 =>
              ((\E e \in call.event : e.start_time = call.data.start_time) <=>
               Range(call.data.invited_users) \subseteq call.participants)

\* C23: a Free/Busy computation, for a user or for a room, with or without
\* bookings that day, completes without raising.
C23_FreeBusyNeverRaises ==
    (call # NoCall /\ call.op \in {"availability_check", "room_availability_check"}) =>
        call.raised = "none"

\* C24: the room "Online Meeting" of the setup is stored, virtual and as it
\* was set up, it is stored once, and a setup that is run again succeeds.
C24_OnlineRoomAlwaysThere ==
    /\ OnlineRoom \in meeting_rooms
    /\ Cardinality({m \in meeting_rooms : m.id = OnlineRoomId}) = 1
    /\ Cardinality({m \in meeting_rooms : m.name = "Online Meeting"}) = 1
    /\ ret.op = "setup_database" => ret.status = "ok"

\* C25: each of the three conflict tests reports a conflict of the event
\* interval a with the requested interval b exactly when the two overlap as
\* half-open intervals.
C25_ConflictTestsAreTheHalfOpenTest ==
    (call # NoCall /\ call.op = "conflict_test") =>
        (call.result <=> Overlaps(call.a[1], call.a[2], call.b[1], call.b[2]))

IsPatch == call # NoCall /\ call.op = "update_event" /\ "data" \in DOMAIN call

\* C26: an updateEvent leaves a start or end its body does not name as it
\* was, never changes the room or the id of the event, leaves the
\* participation rows alone when the body has no list, leaves the other
\* events and their rows alone, and changes nothing for an unknown id.
C26_UpdateChangesOnlyWhatIsNamed ==
    IsPatch =>
        LET b == call.before
            d == call.data
            id == call.event_id
        IN  /\ {e.id : e \in events} = {e.id : e \in b.events}
            /\ \A e \in events : \A o \in b.events :
                  (e.id = id /\ o.id = id) =>
                      /\ e.meeting_room_id = o.meeting_room_id
                      /\ d.start_time = Absent => e.start_time = o.start_time
                      /\ d.end_time = Absent => e.end_time = o.end_time
            /\ ~d.has_invited => user_events = b.user_events
            /\ {e \in events : e.id # id} = {e \in b.events : e.id # id}
            /\ {r \in user_events : r.event_id # id} = {r \in b.user_events : r.event_id # id}
            /\ (~\E o \in b.events : o.id = id) =>
                  events = b.events /\ user_events = b.user_events

\* An update that names the start alone has moved an event that is in a
\* room and has participants.
C26_Witness ==
    /\ IsPatch
    /\ call.ret.status = "ok"
    /\ call.data.start_time # Absent
    /\ call.data.end_time = Absent
    /\ ~call.data.has_invited
    /\ events # call.before.events
    /\ \E o \in call.before.events : o.id = call.event_id /\ o.meeting_room_id # NULL
    /\ ParticipantsOf(user_events, call.event_id) # {}

IsWalk == call # NoCall /\ call.op = "free_periods"

\* C27: the free list of the cursor walk is in ascending order, its
\* intervals are non-empty and pairwise disjoint, and none of them overlaps
\* a busy interval.
C27_FreeListIsDisjoint ==
    IsWalk =>
        /\ \A i \in 1..Len(call.free) : call.free[i].start_time < call.free[i].end_time
        /\ \A i, j \in 1..Len(call.free) :
              i < j => call.free[i].end_time <= call.free[j].start_time
        /\ \A f \in Range(call.free), b \in Range(call.busy) :
              b.start_time < b.end_time =>
                  ~Overlaps(f.start_time, f.end_time, b.start_time, b.end_time)

\* The same for busy lists whose events all end after they start.
FreeListIsDisjointForForwardEvents ==
    (IsWalk /\ \A b \in Range(call.busy) : b.start_time < b.end_time) =>
        C27_FreeListIsDisjoint

\* C28: every slot findCommonAvailableTime returns starts at or after the
\* start of the search window and ends at or before its end.
C28_SlotsInsideTheWindow ==
    IsFinder =>
        \A c \in Range(call.result) :
            call.start_date <= c.start_time /\ c.end_time <= call.end_date

\* Two events of the set are in one physical room at overlapping times.
DoubleBooked(evs) ==
    \E e1 \in evs, e2 \in evs :
        /\ e1.id # e2.id
        /\ e1.meeting_room_id = e2.meeting_room_id
        /\ \E m \in meeting_rooms : m.id = e1.meeting_room_id /\ ~m.is_virtual
        /\ Overlaps(e1.start_time, e1.end_time, e2.start_time, e2.end_time)

\* C29: a createEvent or updateEvent on a store with no physical room
\* double-booked leaves no physical room double-booked.
C29_NoDoubleBooking ==
    (call # NoCall /\ ~DoubleBooked(call.before.events)) => ~DoubleBooked(events)

\* The last call was a createEvent that returned an event id.
Created ==
    /\ call.op = "ids"
    /\ ret.op \in {"create_event", "app_create_event"}
    /\ ret.status = "ok"

\* C30: the id a successful createEvent returns is the id of no event that
\* was committed before the call, cancelled or not, and of no event that a
\* participation row named before the call.
C30_EventIdsNeverReused ==
    Created => ret.val \notin call.earlier /\ ret.val \notin call.stale

\* A createEvent has succeeded after an earlier event was cancelled and
\* left its participation rows behind.
C30_Witness ==
    /\ Created
    /\ \E id \in call.earlier : ~\E e \in events : e.id = id
    /\ \E r \in user_events : r.event_id \in call.earlier /\ r.event_id # ret.val
    /\ \A e \in events : e.id <= ret.val

====
